---- MODULE Spec2Model ----
(***************************************************************************)
(* A model of text.py: the Panel tree (subdivide / seal / set_percent ...)  *)
(* and the frame / constrain text functions.  The source is Python 2:       *)
(* `/` on integers is floor division, round() rounds halves away from zero  *)
(* and re.sub skips an empty match that touches the previous match.         *)
(***************************************************************************)
EXTENDS Integers, Sequences, FiniteSets, TLC

(***************************************************************************)
(* Bounds of the model.                                                     *)
(***************************************************************************)
\* Spec: subdivide is called with 0..MaxSubdivisions subdivisions
MaxSubdivisions == 2
\* Spec: panels below this depth are not subdivided again (the root is at 0)
MaxDepth == 2
\* Spec: number of API calls in one behaviour
MaxOps == 2
\* Spec: set_padding is called with 0..MaxPadding
MaxPadding == 1

\* SpecLayout: the root is subdivided into 1..LayoutKids daughters
LayoutKids == 3
\* SpecLayout: the root is 0..MaxWidth wide
MaxWidth == 10

\* SpecWrap: constrain is called on texts of up to MaxWrapText characters
MaxWrapText == 4
\* SpecWrap: and with a width of -1 (the default) to MaxWrapWidth
MaxWrapWidth == 3

\* SpecFrame: frame is called on texts of up to MaxText characters
MaxText == 3
\* SpecFrame: with a width up to MaxFrameWidth
MaxFrameWidth == 5
\* SpecFrame: and a height of -1 (the default) to MaxFrameHeight
MaxFrameHeight == 3
\* SpecFrame: one-line texts have up to MaxLine characters
MaxLine == 3
\* SpecFrame: and are framed with a width of -1 (the default) to MaxLineWidth
MaxLineWidth == 6

\* SpecEqual: the root is subdivided into 1..EqualKids daughters
EqualKids == 4

\* SpecNested: number of API calls in one behaviour
NestedOps == 3

\* The values handed to set_percent.  All are multiples of 25, for which the
\* double arithmetic of seal is exact on the sizes of the model (see PyRound).
PercentValues == {-1, 50, 150}
\* Root sizes of Spec: a degenerate one and the 10x10 of the documentation
RootSizes == {<<1, 1>>, <<10, 10>>}
\* Root heights of SpecLayout: interior heights 5, 8 and 20
LayoutHeights == {7, 10, 22}
\* Roots of SpecLayout, <<width, height, padding>>: every width without
\* padding, and the 10x10 root with every padding
LayoutRoots ==
    {<<w, h, 0>> : w \in 0..MaxWidth, h \in LayoutHeights}
        \cup {<<10, 10, padding>> : padding \in 0..MaxPadding}
\* Root sizes of SpecNested, <<width, height>>: the 10x10 of the
\* documentation and a wider one whose halves have an odd interior
NestedRoots == {<<10, 10>>, <<12, 10>>}
\* subdivide's width and height arguments: the defaults, or an override
Overrides == {<<-1, -1>>, <<2, 3>>}
\* The names handed to subdivide are a prefix of this list
DaughterNames == <<"a", "b", "c", "d", "e", "f">>

VARIABLES
    panels,   \* the Panel objects reachable from the root: id -> fields
    err,      \* the exception the last call ended with, or "none"
    last,     \* the last call: its method, the panel it was called on, and
              \* the panel whose seal() ended it (NoPanel if it sealed none)
    nops,     \* number of calls made so far
    given,    \* the arguments of the call of a text function (frame, constrain)
    returned  \* the text it returned and the exception it raised

vars == <<panels, err, last, nops, given, returned>>

(***************************************************************************)
(* Helpers.                                                                 *)
(***************************************************************************)
Root == 0
NoPanel == -1
Base == MaxSubdivisions + 1

Range(s) == {s[i] : i \in DOMAIN s}

RECURSIVE SumSeq(_)
SumSeq(s) == IF s = <<>> THEN 0 ELSE s[1] + SumSeq(Tail(s))

\* Python: 1*True == 1, 1*False == 0
B2I(b) == IF b THEN 1 ELSE 0

\* int(round(float(num)/den)) in Python 2, den > 0: round() rounds a half away
\* from zero.  seal computes the quotient in doubles; for percent sums that
\* are multiples of 25 or below 4, and extents below 25 in size, every half is
\* computed exactly, so the exact quotient decides the rounding.
PyRound(num, den) ==
    IF num >= 0 THEN (2 * num + den) \div (2 * den)
    ELSE -((2 * (-num) + den) \div (2 * den))

\* the id of the i-th daughter (1-based) of panel p
DaughterId(p, i) == p * Base + i

RECURSIVE Depth(_)
Depth(p) == IF p = Root THEN 0 ELSE 1 + Depth((p - 1) \div Base)

\* Panel.__init__
NewPanel(name, width, height, padding, topFrame, botFrame, leftFrame, rightFrame, parent, origin) ==
    [ name |-> name, content |-> "", width |-> width, percent |-> -1,
      height |-> height, padding |-> padding,
      topFrame |-> topFrame, botFrame |-> botFrame,
      leftFrame |-> leftFrame, rightFrame |-> rightFrame,
      daughters |-> <<>>, horizontal |-> FALSE, vertical |-> FALSE,
      parent |-> parent, origin |-> origin ]

\* Panel.find_origin, on the panels ps
RECURSIVE find_origin(_, _)
find_origin(ps, p) ==
    IF ps[p].parent # NoPanel THEN find_origin(ps, ps[p].parent) ELSE p

\* the panels below p (p excluded)
RECURSIVE Below(_, _)
Below(ps, p) ==
    LET ds == Range(ps[p].daughters)
    IN  ds \cup UNION {Below(ps, d) : d \in ds}

\* subdivide: self.width - leftFrame - rightFrame - 4*padding
availableWidth(P) ==
    P.width - 1 * B2I(P.leftFrame) - 1 * B2I(P.rightFrame) - 4 * P.padding

\* subdivide: self.height - topFrame - botFrame - 2*padding
availableHeight(P) ==
    P.height - 1 * B2I(P.topFrame) - 1 * B2I(P.botFrame) - 2 * P.padding

(***************************************************************************)
(* Panel.seal(complete): the panels after the call and the exception it     *)
(* raised.  The percents are normalised in place before the direction is    *)
(* looked at; daughtersPercent and freeDaughters are not recomputed after.  *)
(***************************************************************************)
\* the normalisation of one set percent, as the code writes it
NormalizedPercent(percent, daughtersPercent) == percent \div daughtersPercent

\* a share of percent hundredths rounded to the nearest integer
PercentShareRounded(parentExtent, percent) == PyRound(parentExtent * percent, 100)

\* the extent of a daughter with a percent: parentWidth * elem.percent / 100
PercentShare(parentExtent, percent) == (parentExtent * percent) \div 100

\* every free daughter as large as the parent
FreeShareWhole(parentExtent, daughtersPercent, numFreeDaughters) == parentExtent

\* the extent of a free daughter:
\* int(round(float(parentWidth * (1 - float(daughtersPercent)/100)) / numFreeDaughters))
FreeShare(parentExtent, daughtersPercent, numFreeDaughters) ==
    PyRound(parentExtent * (100 - daughtersPercent), 100 * numFreeDaughters)

\* the last free daughter left as it is
NotCompleted(lastFree, parentExtent, daughtersExtent) == lastFree

\* freeDaughters[-1].width += parentWidth - daughtersWidth
Completed(lastFree, parentExtent, daughtersExtent) ==
    lastFree + (parentExtent - daughtersExtent)

seal(ps, self, complete) ==
    LET P == ps[self]
        ds == P.daughters
        parentHeight == P.height - B2I(P.topFrame) - B2I(P.botFrame) - P.padding * 2
        parentWidth == P.width - B2I(P.leftFrame) - B2I(P.rightFrame) - P.padding * 4
        setDaughters == SelectSeq(ds, LAMBDA d : ps[d].percent >= 0)
        daughtersPercent == SumSeq([i \in DOMAIN setDaughters |-> ps[setDaughters[i]].percent])
        freeDaughters == SelectSeq(ds, LAMBDA d : ps[d].percent < 0)
        numFreeDaughters == Len(freeDaughters)
        norm == [d \in DOMAIN ps |->
                   IF d \in Range(ds) /\ daughtersPercent > 100 /\ ps[d].percent > 0
                   THEN [ps[d] EXCEPT !.percent = NormalizedPercent(@, daughtersPercent)]
                   ELSE ps[d]]
        share(d, parentExtent) ==
            IF norm[d].percent < 0
            THEN FreeShare(parentExtent, daughtersPercent, numFreeDaughters)
            ELSE PercentShare(parentExtent, norm[d].percent)
        hor == [d \in DOMAIN ps |->
                  IF d \in Range(ds)
                  THEN [norm[d] EXCEPT !.height = parentHeight,
                                       !.width = share(d, parentWidth)]
                  ELSE norm[d]]
        ver == [d \in DOMAIN ps |->
                  IF d \in Range(ds)
                  THEN [norm[d] EXCEPT !.width = parentWidth,
                                       !.height = share(d, parentHeight)]
                  ELSE norm[d]]
        lastFree == freeDaughters[numFreeDaughters]
        daughtersWidth == SumSeq([i \in DOMAIN ds |-> hor[ds[i]].width])
        daughtersHeight == SumSeq([i \in DOMAIN ds |-> ver[ds[i]].height])
    IN  IF ds = <<>> THEN [ps |-> ps, err |-> "PanelError"]
        ELSE IF P.horizontal THEN
            [ps |-> IF complete /\ numFreeDaughters > 0
                    THEN [hor EXCEPT ![lastFree].width =
                              Completed(@, parentWidth, daughtersWidth)]
                    ELSE hor,
             err |-> "none"]
        ELSE IF P.vertical THEN
            [ps |-> IF complete /\ numFreeDaughters > 0
                    THEN [ver EXCEPT ![lastFree].height =
                              Completed(@, parentHeight, daughtersHeight)]
                    ELSE ver,
             err |-> "none"]
        ELSE [ps |-> norm, err |-> "PanelError"]

\* the i-th daughter subdivide creates on the panels ps, from the fields of
\* the parent P (whose direction is already set)
NewDaughter(ps, P, self, i, subdivisions, width, height) ==
    NewPanel(P.name \o "'s #" \o ToString(i) \o " daughter",
             IF P.horizontal
             THEN (IF width < 0 THEN availableWidth(P) \div subdivisions ELSE width)
             ELSE (IF width < 0
                   THEN P.width - 1 * B2I(P.leftFrame) - 1 * B2I(P.rightFrame) - 4 * P.padding
                   ELSE width),
             IF P.horizontal
             THEN (IF height < 0
                   THEN P.height - 1 * B2I(P.topFrame) - 1 * B2I(P.botFrame) - 2 * P.padding
                   ELSE height)
             ELSE (IF height < 0 THEN availableHeight(P) \div subdivisions ELSE height),
             P.padding, P.topFrame, P.botFrame, P.leftFrame, P.rightFrame,
             self, find_origin(ps, self))

\* what a call leaves: the panels, the exception, the panel whose seal ended it
Outcome(ps, e, sealed) == [ps |-> ps, err |-> e, sealed |-> sealed]

\* Panel.subdivide.  Its padding and frame arguments are never read.
subdivide(ps, self, subdivisions, names, horizontal, width, height) ==
    IF ps[self].content # "" THEN Outcome(ps, "PanelError", NoPanel)
    ELSE IF names # <<>> /\ Len(names) # subdivisions
    THEN Outcome(ps, "PanelError", NoPanel)
    ELSE
      LET P == [ps[self] EXCEPT !.horizontal = horizontal, !.vertical = ~horizontal]
          kept == (DOMAIN ps) \ Below(ps, self)
          ids == [i \in 1..subdivisions |-> DaughterId(self, i)]
          made == [d \in kept \cup Range(ids) |->
                     IF d = self THEN [P EXCEPT !.daughters = ids]
                     ELSE IF d \in Range(ids)
                     THEN NewDaughter(ps, P, self, d - self * Base, subdivisions, width, height)
                     ELSE ps[d]]
          origin == ps[self].origin
          sealed == seal(made, origin, TRUE)
          named == [d \in DOMAIN sealed.ps |->
                      IF names # <<>> /\ d \in Range(ids)
                      THEN [sealed.ps[d] EXCEPT !.name = names[d - self * Base]]
                      ELSE sealed.ps[d]]
      IN  IF sealed.err # "none" THEN Outcome(sealed.ps, sealed.err, NoPanel)
          ELSE Outcome(named, "none", origin)

\* the seal() a method ends with, on a panel that may be None
sealOf(ps, p) ==
    IF p = NoPanel THEN Outcome(ps, "AttributeError", NoPanel)
    ELSE LET r == seal(ps, p, TRUE)
         IN  Outcome(r.ps, r.err, IF r.err = "none" THEN p ELSE NoPanel)

\* Panel.set_percent
set_percent(ps, self, percent) ==
    sealOf([ps EXCEPT ![self].percent = percent], ps[self].parent)

\* Panel.set_padding
set_padding(ps, self, padding) ==
    LET ps1 == [ps EXCEPT ![self].padding = padding]
    IN  IF ps1[self].daughters # <<>> THEN sealOf(ps1, self)
        ELSE sealOf(ps1, ps1[self].parent)

\* Panel.set_frames
set_frames(ps, self, topFrame, botFrame, leftFrame, rightFrame) ==
    sealOf([ps EXCEPT ![self].topFrame = topFrame, ![self].botFrame = botFrame,
                      ![self].leftFrame = leftFrame, ![self].rightFrame = rightFrame],
           ps[self].origin)

\* Panel.toggle_direction
toggle_direction(ps, self) ==
    IF ~ps[self].vertical /\ ~ps[self].horizontal
    THEN Outcome(ps, "PanelError", NoPanel)
    ELSE IF ps[self].vertical
    THEN sealOf([ps EXCEPT ![self].vertical = FALSE, ![self].horizontal = TRUE],
                ps[self].origin)
    ELSE sealOf([ps EXCEPT ![self].horizontal = FALSE, ![self].vertical = TRUE],
                ps[self].origin)

\* Panel.__getitem__: the first panel named key, depth first from self, or
\* NoPanel where the code raises ValueError
RECURSIVE getitem(_, _, _)
RECURSIVE getitemIn(_, _, _)
getitem(ps, self, key) ==
    IF ps[self].name = key THEN self ELSE getitemIn(ps, ps[self].daughters, key)
getitemIn(ps, ds, key) ==
    IF ds = <<>> THEN NoPanel
    ELSE LET found == getitem(ps, Head(ds), key)
         IN  IF found # NoPanel THEN found ELSE getitemIn(ps, Tail(ds), key)

\* __setitem__ with a str: the content of the panel found, which must not be
\* a container
AssignToContainer(ps, found, str) ==
    Outcome([ps EXCEPT ![found].content = str], "none", NoPanel)

AssignContent(ps, found, str) ==
    IF ps[found].horizontal \/ ps[found].vertical
    THEN Outcome(ps, "PanelError", NoPanel)
    ELSE Outcome([ps EXCEPT ![found].content = str], "none", NoPanel)

\* Panel.__setitem__; value is [type |-> "int", int |-> n], [type |-> "str",
\* str |-> s] or [type |-> "other"]
setitem(ps, self, key, value) ==
    LET found == getitem(ps, self, key)
    IN  IF value.type = "int"
        THEN (IF found = NoPanel THEN Outcome(ps, "ValueError", NoPanel)
              ELSE set_percent(ps, found, value.int))
        ELSE IF value.type = "str"
        THEN (IF found = NoPanel THEN Outcome(ps, "ValueError", NoPanel)
              ELSE AssignContent(ps, found, value.str))
        ELSE Outcome(ps, "PanelError", NoPanel)

(***************************************************************************)
(* Text: a string is a sequence of one-character strings.                   *)
(***************************************************************************)
NL == "\n"
\* the character ` which a TLA+ string cannot hold
Backquote == "bq"
\* the characters \w matches, and those \s matches, among those of the model
WordChars == {"a", "x", "h", "i"}
SpaceChars == {" ", NL}

Min(a, b) == IF a < b THEN a ELSE b
Max(a, b) == IF a > b THEN a ELSE b

\* Python's c * n: empty when n <= 0
Repeat(c, n) == [i \in 1..n |-> c]
\* s[:n] and s[n:], n >= 0
Take(s, n) == SubSeq(s, 1, Min(n, Len(s)))
Drop(s, n) == SubSeq(s, n + 1, Len(s))

\* Op applied to the value of x: x is evaluated once, however often Op
\* uses its argument
Bind(x, Op(_)) == CHOOSE r \in {Op(v) : v \in {x}} : TRUE

\* the index of the first line break of s, 0 if it has none
FirstBreak(s) ==
    IF \A k \in DOMAIN s : s[k] # NL THEN 0
    ELSE CHOOSE k \in DOMAIN s : s[k] = NL /\ \A j \in 1..(k - 1) : s[j] # NL

\* s.split("\n")
RECURSIVE split(_)
split(text) ==
    Bind(text, LAMBDA s : Bind(FirstBreak(s), LAMBDA k :
        IF k = 0 THEN <<s>>
        ELSE <<SubSeq(s, 1, k - 1)>> \o split(Drop(s, k))))

\* s.split("\n", maxsplit), maxsplit >= 0
RECURSIVE splitMax(_, _)
splitMax(text, maxsplit) ==
    Bind(text, LAMBDA s : Bind(FirstBreak(s), LAMBDA k :
        IF maxsplit = 0 \/ k = 0 THEN <<s>>
        ELSE <<SubSeq(s, 1, k - 1)>> \o splitMax(Drop(s, k), maxsplit - 1)))

\* "\n".join(lines)
RECURSIVE join(_)
join(pieces) ==
    Bind(pieces, LAMBDA lines :
        IF lines = <<>> THEN <<>>
        ELSE IF Len(lines) = 1 THEN lines[1]
        ELSE lines[1] \o <<NL>> \o join(Tail(lines)))

\* re.sub applied to every line: the patterns of frame that start with ^ and
\* are compiled with re.M match once at the start of each line, and none of
\* their empty matches touches the match before it
EachLine(s, Op(_)) ==
    Bind(split(s), LAMBDA lines : join([i \in DOMAIN lines |-> Op(lines[i])]))

(***************************************************************************)
(* constrain(text, width)                                                   *)
(***************************************************************************)
\* r"^.*\|.*\|.*$" with re.M, and the replacement of " " by "`" in the match
ProtectFrames(text) ==
    EachLine(text, LAMBDA line :
        IF Cardinality({k \in DOMAIN line : line[k] = "|"}) >= 2
        THEN [k \in DOMAIN line |-> IF line[k] = " " THEN Backquote ELSE line[k]]
        ELSE line)

\* the length of group 2, (\s|(\w--?\w)|$), matched at offset pos of text, or
\* -1 when it does not match there; the alternatives are tried in order
Group2At(text, pos) ==
    LET n == Len(text)
        at(k) == text[pos + k]
    IN  IF pos < n /\ at(1) \in SpaceChars THEN 1
        ELSE IF pos + 4 <= n /\ at(1) \in WordChars /\ at(2) = "-" /\ at(3) = "-"
                /\ at(4) \in WordChars THEN 4
        ELSE IF pos + 3 <= n /\ at(1) \in WordChars /\ at(2) = "-"
                /\ at(3) \in WordChars THEN 3
        ELSE IF pos = n \/ (pos = n - 1 /\ text[n] = NL) THEN 0
        ELSE -1

\* the number of characters (.{,width}) takes in the match that starts at
\* offset b: the largest that lets group 2 follow, or -1 when none does
RECURSIVE Group1From(_, _, _)
Group1From(text, b, k) ==
    IF k < 0 THEN -1
    ELSE IF Group2At(text, b + k) >= 0 THEN k
    ELSE Group1From(text, b, k - 1)

\* the characters from offset b up to the end of their line
RECURSIVE RunFrom(_, _)
RunFrom(text, b) ==
    IF b >= Len(text) \/ text[b + 1] = NL THEN 0 ELSE 1 + RunFrom(text, b + 1)

Group1At(text, width, b) == Group1From(text, b, Min(width, RunFrom(text, b)))

\* what the lambda of constrain returns for the match at b: group 1 and a
\* line break, which takes the place of a blank or comes before the last
\* character of a hyphenated break
BreakLine(group1, group2) ==
    IF Len(group2) < 2 THEN group1 \o <<NL>>
    ELSE group1 \o SubSeq(group2, 1, Len(group2) - 1) \o <<NL>>
            \o <<group2[Len(group2)]>>

\* re.sub of Python 2 (pattern_subx): start is where the next search starts,
\* i the end of the last match replaced, n the number of replacements; an
\* empty match at i is skipped once something was replaced
\* the first match of the pattern at or after offset start: where it begins
\* (b), where group 1 ends (m) and where the match ends (e); b = -1 if none
Search(text, width, start) ==
    Bind({b \in start..Len(text) : Group1At(text, width, b) >= 0}, LAMBDA found :
        IF found = {} THEN [b |-> -1, m |-> -1, e |-> -1]
        ELSE Bind(CHOOSE b \in found : \A c \in found : b <= c, LAMBDA b :
               Bind(b + Group1At(text, width, b), LAMBDA m :
                 [b |-> b, m |-> m, e |-> m + Group2At(text, m)])))

RECURSIVE WrapFrom(_, _, _, _, _)
WrapFrom(text, width, start, i, n) ==
    Bind(<<Search(text, width, start), i, n>>, LAMBDA at :
        LET b == at[1].b
            e == at[1].e
            group1 == SubSeq(text, b + 1, at[1].m)
            group2 == SubSeq(text, at[1].m + 1, e)
        IN  IF b < 0 THEN Drop(text, at[2])
            ELSE IF at[2] = b /\ b = e /\ at[3] > 0
            THEN WrapFrom(text, width, b + 1, at[2], at[3])
            ELSE SubSeq(text, at[2] + 1, b) \o BreakLine(group1, group2)
                   \o WrapFrom(text, width, IF e = b THEN e + 1 ELSE e, e, at[3] + 1))

\* re.sub("`", " ", text)
Unprotect(wrapped) ==
    Bind(wrapped, LAMBDA text :
        [k \in DOMAIN text |-> IF text[k] = Backquote THEN " " ELSE text[k]])

\* constrain: the text and the exception.  With width < 0 the pattern
\* ".{,-1}" is a literal that no text of the model holds, so nothing is
\* replaced; text[-1] of an empty text raises IndexError.
Wrap(protected, width) ==
    IF width < 0 THEN protected ELSE WrapFrom(protected, width, 0, 0, 0)

constrain(text, width) ==
    Bind(ProtectFrames(text), LAMBDA protected :
      Bind(Unprotect(Wrap(protected, width)), LAMBDA restored :
        IF restored = <<>> THEN [text |-> <<>>, err |-> "IndexError"]
        ELSE IF restored[Len(restored)] = NL
        THEN [text |-> SubSeq(restored, 1, Len(restored) - 1), err |-> "none"]
        ELSE [text |-> restored, err |-> "none"]))

(***************************************************************************)
(* frame(text, width, height, padding, topFrame, botFrame, leftFrame,       *)
(* rightFrame)                                                              *)
(***************************************************************************)
\* the length of the longest line, as the loop over findall(r"^.*$") finds it
widest(text) ==
    Bind(split(text), LAMBDA lines :
        CHOOSE n \in 0..Len(text) :
            /\ \A k \in DOMAIN lines : Len(lines[k]) <= n
            /\ n = 0 \/ \E k \in DOMAIN lines : Len(lines[k]) = n)

\* re.sub(r"^", "  " * padding, text, flags=re.M) and the blank lines of
\* padding above and below
AddPadding(text, padding) ==
    Repeat(NL, padding)
        \o EachLine(text, LAMBDA line : Repeat(" ", 2 * padding) \o line)
        \o Repeat(NL, padding)

\* re.sub(r"(^.{,yank})", r"\1" + " " * width, text, flags=re.M): with
\* yank < 0 the pattern is a literal that no text of the model holds
PadRight(text, yank, width) ==
    IF yank < 0 THEN text
    ELSE EachLine(text, LAMBDA line :
            Take(line, yank) \o Repeat(" ", width) \o Drop(line, yank))

\* side frames drawn the same way whatever width - fNum is
SideFramesAlike(text, width, padding, fNum, leftFrame, rightFrame) ==
    EachLine(PadRight(text, width - 2 * padding - fNum, width), LAMBDA line :
        (IF leftFrame THEN <<"|">> ELSE <<>>) \o Take(line, Max(width - fNum, 0))
            \o (IF rightFrame THEN <<"|">> ELSE <<>>))

\* the side frames: the four substitutions keyed on width - fNum
SideFrames(text, width, padding, fNum, leftFrame, rightFrame) ==
    LET yanked == PadRight(text, width - 2 * padding - fNum, width)
        inner == width - fNum
    IN  IF inner > 0
        THEN EachLine(yanked, LAMBDA line :
                IF Len(line) < inner THEN line
                ELSE (IF leftFrame THEN <<"|">> ELSE <<>>) \o Take(line, inner)
                        \o (IF rightFrame THEN <<"|">> ELSE <<>>))
        ELSE IF inner = 0 THEN EachLine(yanked, LAMBDA line : <<"|", "|">>)
        ELSE IF inner = -1 THEN EachLine(yanked, LAMBDA line : <<"|">>)
        ELSE EachLine(yanked, LAMBDA line : <<>>)

\* the line of the top and of the bottom frame, for width - fNum >= -1
Border(width, fNum, leftFrame, rightFrame) ==
    LET inner == width - fNum
        left == IF leftFrame THEN "+" ELSE "-"
        right == IF rightFrame THEN "+" ELSE "-"
    IN  IF inner > 0 THEN <<left>> \o Repeat("-", width - 2) \o <<right>>
        ELSE IF inner = 0 THEN <<left, right>>
        ELSE IF leftFrame \/ rightFrame THEN <<"+">> ELSE <<"-">>

\* s * n for a string s
Times(s, n) == [k \in 1..(Len(s) * n) |-> s[((k - 1) % Len(s)) + 1]]

\* blank lines added up to height lines below the top frame, nothing dropped
FitHeightBelowTop(text, width, height, padding, fNum, topFrame, botFrame, leftFrame, rightFrame) ==
    LET blank == (IF leftFrame THEN <<NL, "|">> ELSE <<NL>>)
                    \o Repeat(" ", width - fNum)
                    \o (IF rightFrame THEN <<"|">> ELSE <<>>)
    IN  Bind(splitMax(text \o Times(blank, height), height + B2I(topFrame)),
             LAMBDA temp : join(SubSeq(temp, 1, Len(temp) - 1)))

\* the branch for height > -1: blank lines are added, the text is cut after
\* height (+ 1 with a top frame) line breaks, the last pieces are dropped and
\* the lines of bottom padding are put back
FitHeight(text, width, height, padding, fNum, topFrame, botFrame, leftFrame, rightFrame) ==
    LET blank == (IF leftFrame THEN <<NL, "|">> ELSE <<NL>>)
                    \o Repeat(" ", width - fNum)
                    \o (IF rightFrame THEN <<"|">> ELSE <<>>)
        drop == 1 + padding + B2I(botFrame) + B2I(topFrame)
    IN  Bind(splitMax(text \o Times(blank, height), height + B2I(topFrame)),
             LAMBDA temp :
                join(IF Len(temp) > drop THEN SubSeq(temp, 1, Len(temp) - drop) ELSE <<>>)
                    \o Times(<<NL, "|">> \o Repeat(" ", width - fNum) \o <<"|">>, padding))

frame(text, width, height, padding, topFrame, botFrame, leftFrame, rightFrame) ==
    LET pad == IF padding < 0 THEN 0 ELSE padding
        top == padding >= 0 /\ topFrame
        bot == padding >= 0 /\ botFrame
        left == padding >= 0 /\ leftFrame
        right == padding >= 0 /\ rightFrame
        fNum == B2I(left) + B2I(right)
        filled == IF Len(text) < 1
                  THEN <<" ">> \o Repeat(" ", width - fNum - pad * 4)
                  ELSE text
        framed(constrained, w) ==
            LET padded == AddPadding(constrained, pad)
                sided == IF left \/ right
                         THEN SideFrames(padded, w, pad, fNum, left, right)
                         ELSE padded
                topped == IF top /\ w - fNum >= -1
                          THEN Border(w, fNum, left, right) \o <<NL>> \o sided
                          ELSE sided
                fitted == IF height > -1
                          THEN FitHeight(topped, w, height, pad, fNum, top, bot, left, right)
                          ELSE topped
            IN  IF bot /\ w - fNum >= -1
                THEN fitted \o <<NL>> \o Border(w, fNum, left, right)
                ELSE fitted
    IN  Bind(IF width < 0 THEN widest(filled) + 4 * pad + fNum ELSE width, LAMBDA w :
          Bind(constrain(filled, w - 4 * pad - fNum), LAMBDA constrained :
            IF constrained.err # "none" THEN constrained
            ELSE [text |-> framed(constrained.text, w), err |-> "none"]))

(***************************************************************************)
(* The calls, as actions.                                                   *)
(***************************************************************************)
Call(op, self, args, r) ==
    /\ panels' = r.ps
    /\ err' = r.err
    /\ last' = [op |-> op, target |-> self, args |-> args, sealed |-> r.sealed]
    /\ UNCHANGED <<given, returned>>

Subdivide(self, subdivisions, names, horizontal, width, height) ==
    /\ self \in DOMAIN panels
    /\ Depth(self) < MaxDepth
    /\ Call("subdivide", self,
            [subdivisions |-> subdivisions, names |-> names,
             width |-> width, height |-> height],
            subdivide(panels, self, subdivisions, names, horizontal, width, height))

SetPercent(self, percent) ==
    /\ self \in DOMAIN panels
    /\ Call("set_percent", self, [percent |-> percent],
            set_percent(panels, self, percent))

SetPadding(self, padding) ==
    /\ self \in DOMAIN panels
    /\ Call("set_padding", self, [padding |-> padding],
            set_padding(panels, self, padding))

SetFrames(self, topFrame, botFrame, leftFrame, rightFrame) ==
    /\ self \in DOMAIN panels
    /\ Call("set_frames", self, [frames |-> <<topFrame, botFrame, leftFrame, rightFrame>>],
            set_frames(panels, self, topFrame, botFrame, leftFrame, rightFrame))

ToggleDirection(self) ==
    /\ self \in DOMAIN panels
    /\ Call("toggle_direction", self, [none |-> 0], toggle_direction(panels, self))

SetItem(self, key, value) ==
    /\ self \in DOMAIN panels
    /\ Call("setitem", self, [key |-> key, value |-> value],
            setitem(panels, self, key, value))

Seal(self) ==
    /\ self \in DOMAIN panels
    /\ Call("seal", self, [complete |-> TRUE], sealOf(panels, self))

(***************************************************************************)
(* Spec: a root panel and any MaxOps calls of the API on its tree.          *)
(***************************************************************************)
\* no text function is called in the specifications of the Panel tree
NoText == [fn |-> "none"]
\* the result of a text function that has not returned yet
Pending == [text |-> <<>>, err |-> "pending"]

NoCall == [op |-> "init", target |-> Root, args |-> [none |-> 0], sealed |-> NoPanel]

Init ==
    /\ \E size \in RootSizes :
         panels = [p \in {Root} |->
                     NewPanel("root", size[1], size[2], 0, TRUE, TRUE, TRUE, TRUE,
                              NoPanel, Root)]
    /\ err = "none"
    /\ last = NoCall
    /\ nops = 0
    /\ given = NoText
    /\ returned = Pending

\* the lists of names handed to subdivide
NameLists(n) == {<<>>, SubSeq(DaughterNames, 1, n), SubSeq(DaughterNames, 1, n + 1)}
\* the keys handed to panel[key] = value
Keys == {panels[p].name : p \in DOMAIN panels} \cup {"nobody"}
\* the values handed to panel[key] = value
Values == {[type |-> "int", int |-> 50], [type |-> "str", str |-> "x"],
           [type |-> "other"]}
\* set_frames is called with no argument (all off) or with all frames on
FrameChoices == {<<FALSE, FALSE, FALSE, FALSE>>, <<TRUE, TRUE, TRUE, TRUE>>}

DoSubdivide ==
    /\ nops < MaxOps
    /\ \E self \in DOMAIN panels, n \in 0..MaxSubdivisions, horizontal \in BOOLEAN,
          size \in Overrides :
         \E names \in NameLists(n) :
            \* the calls enumerated give names or an explicit size, not both
            /\ names = <<>> \/ size = <<-1, -1>>
            /\ Subdivide(self, n, names, horizontal, size[1], size[2])
    /\ nops' = nops + 1

DoSetPercent ==
    /\ nops < MaxOps
    /\ \E self \in DOMAIN panels, percent \in PercentValues : SetPercent(self, percent)
    /\ nops' = nops + 1

DoSetPadding ==
    /\ nops < MaxOps
    /\ \E self \in DOMAIN panels, padding \in 0..MaxPadding : SetPadding(self, padding)
    /\ nops' = nops + 1

DoSetFrames ==
    /\ nops < MaxOps
    /\ \E self \in DOMAIN panels, f \in FrameChoices :
         SetFrames(self, f[1], f[2], f[3], f[4])
    /\ nops' = nops + 1

DoToggleDirection ==
    /\ nops < MaxOps
    /\ \E self \in DOMAIN panels : ToggleDirection(self)
    /\ nops' = nops + 1

DoSetItem ==
    /\ nops < MaxOps
    /\ \E key \in Keys, value \in Values : SetItem(Root, key, value)
    /\ nops' = nops + 1

DoSeal ==
    /\ nops < MaxOps
    /\ \E self \in DOMAIN panels : Seal(self)
    /\ nops' = nops + 1

Next ==
    \/ DoSubdivide
    \/ DoSetPercent
    \/ DoSetPadding
    \/ DoSetFrames
    \/ DoToggleDirection
    \/ DoSetItem
    \/ DoSeal

Spec == Init /\ [][Next]_vars

(***************************************************************************)
(* SpecLayout: one container.  A root of any width and padding is          *)
(* subdivided with the default arguments; then its daughters are given      *)
(* percents and it is sealed, in any order and any number of times.         *)
(***************************************************************************)
InitLayout ==
    /\ \E r \in LayoutRoots :
         panels = [p \in {Root} |->
                     NewPanel("root", r[1], r[2], r[3], TRUE, TRUE, TRUE, TRUE,
                              NoPanel, Root)]
    /\ err = "none"
    /\ last = NoCall
    /\ nops = 0
    /\ given = NoText
    /\ returned = Pending

LayoutSubdivide ==
    /\ panels[Root].daughters = <<>>
    /\ \E n \in 1..LayoutKids, horizontal \in BOOLEAN :
         Subdivide(Root, n, <<>>, horizontal, -1, -1)
    /\ UNCHANGED nops

LayoutSetPercent ==
    /\ \E self \in DOMAIN panels \ {Root}, percent \in PercentValues :
         SetPercent(self, percent)
    /\ UNCHANGED nops

LayoutSeal ==
    /\ Seal(Root)
    /\ UNCHANGED nops

NextLayout ==
    \/ LayoutSubdivide
    \/ LayoutSetPercent
    \/ LayoutSeal

SpecLayout == InitLayout /\ [][NextLayout]_vars

(***************************************************************************)
(* SpecEqual: one container whose daughters have no percent.  A root of any *)
(* width is subdivided with the default arguments into up to EqualKids      *)
(* daughters, and sealed any number of times.                               *)
(***************************************************************************)
EqualSubdivide ==
    /\ panels[Root].daughters = <<>>
    /\ \E n \in 1..EqualKids, horizontal \in BOOLEAN :
         Subdivide(Root, n, <<>>, horizontal, -1, -1)
    /\ UNCHANGED nops

EqualSeal ==
    /\ Seal(Root)
    /\ UNCHANGED nops

NextEqual ==
    \/ EqualSubdivide
    \/ EqualSeal

SpecEqual == InitLayout /\ [][NextEqual]_vars

(***************************************************************************)
(* SpecNested: nested layouts.  A root with all frames and no padding; any  *)
(* panel above MaxDepth is subdivided with the default arguments, any panel *)
(* has its direction toggled or is given a percent, NestedOps calls in all. *)
(***************************************************************************)
InitNested ==
    /\ \E size \in NestedRoots :
         panels = [p \in {Root} |->
                     NewPanel("root", size[1], size[2], 0, TRUE, TRUE, TRUE, TRUE,
                              NoPanel, Root)]
    /\ err = "none"
    /\ last = NoCall
    /\ nops = 0
    /\ given = NoText
    /\ returned = Pending

NestedSubdivide ==
    /\ nops < NestedOps
    /\ \E self \in DOMAIN panels, n \in 1..MaxSubdivisions, horizontal \in BOOLEAN :
         Subdivide(self, n, <<>>, horizontal, -1, -1)
    /\ nops' = nops + 1

NestedToggleDirection ==
    /\ nops < NestedOps
    /\ \E self \in DOMAIN panels : ToggleDirection(self)
    /\ nops' = nops + 1

NestedSetPercent ==
    /\ nops < NestedOps
    /\ \E self \in DOMAIN panels, percent \in PercentValues : SetPercent(self, percent)
    /\ nops' = nops + 1

NextNested ==
    \/ NestedSubdivide
    \/ NestedToggleDirection
    \/ NestedSetPercent

SpecNested == InitNested /\ [][NextNested]_vars

(***************************************************************************)
(* SpecWrap: constrain is called once, on any short text and width.         *)
(***************************************************************************)
\* every string of up to n characters of chars
Texts(chars, n) == UNION {[1..k -> chars] : k \in 0..n}

\* a word character, a blank, a hyphen, a pipe (two of them make a line that
\* constrain takes for a frame) and a line break
WrapChars == {"a", " ", "-", "|", NL}

NoPanels == [p \in {} |-> NoPanel]

InitWrap ==
    /\ panels = NoPanels
    /\ err = "none"
    /\ last = NoCall
    /\ nops = 0
    /\ \E text \in Texts(WrapChars, MaxWrapText), width \in -1..MaxWrapWidth :
         given = [fn |-> "constrain", text |-> text, width |-> width]
    /\ returned = Pending

Constrain ==
    /\ given.fn = "constrain"
    /\ returned = Pending
    /\ returned' = constrain(given.text, given.width)
    /\ UNCHANGED <<panels, err, last, nops, given>>

NextWrap == Constrain

SpecWrap == InitWrap /\ [][NextWrap]_vars

(***************************************************************************)
(* SpecFrame: frame is called once: on any short text with any width,       *)
(* height, padding and frames, or on a longer one-line text with the        *)
(* default height and padding and all four frames.                          *)
(***************************************************************************)
BlockChars == {"x", " ", NL}
LineChars == {"h", "i", " ", Backquote}
\* negative widths ask for the width of the text
FrameWidths == {-2, -1} \cup 0..MaxFrameWidth
\* a negative padding turns the frames off
FramePaddings == {-1, 0, 1}

Blocks ==
    {[fn |-> "frame", text |-> text, width |-> width, height |-> height,
      padding |-> padding, topFrame |-> f[1], botFrame |-> f[2],
      leftFrame |-> f[3], rightFrame |-> f[4]] :
        text \in Texts(BlockChars, MaxText), width \in FrameWidths,
        height \in -1..MaxFrameHeight, padding \in FramePaddings,
        f \in [1..4 -> BOOLEAN]}

Lines ==
    {[fn |-> "frame", text |-> text, width |-> width, height |-> -1,
      padding |-> 0, topFrame |-> TRUE, botFrame |-> TRUE,
      leftFrame |-> TRUE, rightFrame |-> TRUE] :
        text \in Texts(LineChars, MaxLine), width \in -1..MaxLineWidth}

InitFrame ==
    /\ panels = NoPanels
    /\ err = "none"
    /\ last = NoCall
    /\ nops = 0
    /\ given \in Blocks \cup Lines
    /\ returned = Pending

Frame ==
    /\ given.fn = "frame"
    /\ returned = Pending
    /\ returned' = frame(given.text, given.width, given.height, given.padding,
                         given.topFrame, given.botFrame, given.leftFrame,
                         given.rightFrame)
    /\ UNCHANGED <<panels, err, last, nops, given>>

NextFrame == Frame

SpecFrame == InitFrame /\ [][NextFrame]_vars

(***************************************************************************)
(* What the claims speak of.                                                *)
(***************************************************************************)
Abs(x) == IF x < 0 THEN -x ELSE x

\* the last call ended, without an exception, with seal() on panel p
SealedBy(p) == err = "none" /\ last.sealed = p /\ p # NoPanel

\* the extent of daughter d along the axis its parent p stacks on
StackExtent(ps, p, d) == IF ps[p].horizontal THEN ps[d].width ELSE ps[d].height

\* the interior extent of the container p along its stacking axis
InteriorExtent(ps, p) ==
    IF ps[p].horizontal
    THEN ps[p].width - B2I(ps[p].leftFrame) - B2I(ps[p].rightFrame) - 4 * ps[p].padding
    ELSE ps[p].height - B2I(ps[p].topFrame) - B2I(ps[p].botFrame) - 2 * ps[p].padding

StackSum(ps, p) ==
    SumSeq([i \in DOMAIN ps[p].daughters |-> StackExtent(ps, p, ps[p].daughters[i])])

FreeOf(ps, p) == {d \in Range(ps[p].daughters) : ps[d].percent < 0}
SetOf(ps, p) == {d \in Range(ps[p].daughters) : ps[d].percent >= 0}

(***************************************************************************)
(* C1 as stated: after seal() on any container, for every mix of daughters  *)
(* with and without a percent, the daughters' extents along the stacking    *)
(* axis sum to the container's interior extent.                             *)
(***************************************************************************)
C1_ConservationEveryMix ==
    \A p \in DOMAIN panels : SealedBy(p) => StackSum(panels, p) = InteriorExtent(panels, p)

(***************************************************************************)
(* C1 amended: after seal() on a container that has at least one daughter   *)
(* without a percent, the daughters' extents along the stacking axis sum to *)
(* the container's interior extent.                                         *)
(***************************************************************************)
C1_ConservationWithFreeDaughter ==
    \A p \in DOMAIN panels :
        SealedBy(p) /\ FreeOf(panels, p) # {}
            => StackSum(panels, p) = InteriorExtent(panels, p)

\* a sealed container with a free daughter, a daughter with a percent, and a
\* free share that had to be completed (7 * 50 / 100 is not an integer)
C1_Witness ==
    /\ SealedBy(Root)
    /\ FreeOf(panels, Root) # {}
    /\ \E d \in SetOf(panels, Root) : panels[d].percent = 50
    /\ InteriorExtent(panels, Root) = 7
    /\ Len(panels[Root].daughters) = 3

(***************************************************************************)
(* C2: a seal() that follows a seal() of the same container, with nothing   *)
(* done in between, leaves every daughter's width and height as they were.  *)
(***************************************************************************)
C2_SealIdempotent ==
    [][ \A p \in DOMAIN panels :
          (SealedBy(p) /\ last'.op = "seal" /\ last'.target = p /\ err' = "none")
            => \A d \in Range(panels[p].daughters) :
                  /\ panels'[d].width = panels[d].width
                  /\ panels'[d].height = panels[d].height ]_vars

(***************************************************************************)
(* C3: when set_percent makes the percents set on a container's daughters   *)
(* sum to S > 100, the seal() it ends with leaves each set percent p at     *)
(* p*100/S (within a unit of rounding), and the percents then sum to 100    *)
(* (within a unit per daughter).                                            *)
(***************************************************************************)
C3_NormalizedTo100 ==
    [][ (last'.op = "set_percent" /\ err' = "none") =>
          LET self == last'.target
              p == panels[self].parent
              before(d) == IF d = self THEN last'.args.percent ELSE panels[d].percent
              set == {d \in Range(panels[p].daughters) : before(d) >= 0}
              ds == panels[p].daughters
              S == SumSeq([i \in DOMAIN ds |-> IF before(ds[i]) >= 0 THEN before(ds[i]) ELSE 0])
              after == SumSeq([i \in DOMAIN ds |->
                          IF ds[i] \in set THEN panels'[ds[i]].percent ELSE 0])
          IN  S > 100 =>
                /\ \A d \in set : Abs(panels'[d].percent * S - before(d) * 100) <= S
                /\ Abs(after - 100) <= Cardinality(set) ]_vars

(***************************************************************************)
(* What the claims on frame and constrain speak of.                         *)
(***************************************************************************)
\* the text function has returned, without an exception
Returned(fn) == given.fn = fn /\ returned.err = "none"
\* the lines of the text returned
Output == split(returned.text)
\* the line of a top or bottom frame
IsBorder(line) == line # <<>> /\ \A k \in DOMAIN line : line[k] \in {"+", "-"}
\* the lines of the text returned that are not of the top or bottom frame
Content == {Output[k] : k \in {j \in DOMAIN Output : ~IsBorder(Output[j])}}
\* the number of side frames of the call
SideFramesGiven == B2I(given.leftFrame) + B2I(given.rightFrame)

(***************************************************************************)
(* C4 as stated: for every text, width w >= 0, padding >= 0 and frames,     *)
(* frame(text, w, h, ...) with h >= 0 returns h + topFrame + botFrame lines *)
(* and every one of them has length w.                                      *)
(***************************************************************************)
C4_ExactDimensions ==
    (Returned("frame") /\ given.height >= 0 /\ given.width >= 0 /\ given.padding >= 0)
        => /\ Len(Output) = given.height + B2I(given.topFrame) + B2I(given.botFrame)
           /\ \A k \in DOMAIN Output : Len(Output[k]) = given.width

(***************************************************************************)
(* C4 amended: for every text, padding >= 0 and frames, frame(text, w, h,   *)
(* ...) with w >= 0, w - leftFrame - rightFrame >= -1 and                   *)
(* h >= botFrame + padding + 1 returns exactly h lines, the top and bottom  *)
(* frames counted among them; and when leftFrame and rightFrame are both on *)
(* and w >= 2 + 2*padding, every one of them has length w.                  *)
(***************************************************************************)
C4_HeightIsTotalLines ==
    (/\ Returned("frame") /\ given.width >= 0 /\ given.padding >= 0
     /\ given.width - SideFramesGiven >= -1
     /\ given.height >= B2I(given.botFrame) + given.padding + 1)
        => /\ Len(Output) = given.height
           /\ (given.leftFrame /\ given.rightFrame
                    /\ given.width >= 2 + 2 * given.padding)
                => \A k \in DOMAIN Output : Len(Output[k]) = given.width

\* frame("x x", 3, 3) has put the second word on a line of its own and
\* dropped that line: "+-+\n|x|\n+-+"
C4_Witness ==
    /\ Returned("frame")
    /\ given.text = <<"x", " ", "x">> /\ given.width = 3 /\ given.height = 3
    /\ given.padding = 0
    /\ given.topFrame /\ given.botFrame /\ given.leftFrame /\ given.rightFrame
    /\ returned.text = <<"+", "-", "+", NL, "|", "x", "|", NL, "+", "-", "+">>

(***************************************************************************)
(* C5: for every text and every width >= 1, each line that constrain(text,  *)
(* width) returns has at most width characters; a single word longer than   *)
(* width comes back as its first width characters.                          *)
(***************************************************************************)
C5_WrapWithinWidth ==
    (Returned("constrain") /\ given.width >= 1)
        => /\ \A k \in DOMAIN Output : Len(Output[k]) <= given.width
           /\ (/\ Len(given.text) > given.width
               /\ \A k \in DOMAIN given.text : given.text[k] \in WordChars)
                => returned.text = Take(given.text, given.width)

\* constrain("a a", 1) has broken the line at the blank: "a\na"
C5_Witness ==
    /\ Returned("constrain")
    /\ given.text = <<"a", " ", "a">> /\ given.width = 1
    /\ returned.text = <<"a", NL, "a">>

(***************************************************************************)
(* C6 as stated: with leftFrame and rightFrame on, the lines of             *)
(* frame("x", width, ...) that are not of the top or bottom frame are       *)
(* "||" for width 0, "|" for width -1 and empty for width < -1.             *)
(***************************************************************************)
C6_DegenerateWidths ==
    (/\ Returned("frame") /\ given.text = <<"x">> /\ given.padding >= 0
     /\ given.leftFrame /\ given.rightFrame)
        => /\ given.width = 0 => Content = {<<"|", "|">>}
           /\ given.width = -1 => Content = {<<"|">>}
           /\ given.width < -1 => Content = {<<>>}

(***************************************************************************)
(* C6 amended: with leftFrame and rightFrame on and no height given, the    *)
(* lines of frame("x", width, ...) that are not of the top or bottom frame  *)
(* are "||" for width 2, "|" for width 1 and empty for width 0 (the width   *)
(* less the two side frames being 0, -1 and -2); a width < 0 is replaced by *)
(* the width of the text, so that the x is framed.                          *)
(***************************************************************************)
C6_DegenerateInteriors ==
    (/\ Returned("frame") /\ given.text = <<"x">> /\ given.padding >= 0
     /\ given.leftFrame /\ given.rightFrame /\ given.height = -1)
        => /\ given.width = 2 => Content = {<<"|", "|">>}
           /\ given.width = 1 => Content = {<<"|">>}
           /\ given.width = 0 => Content = {<<>>}
           /\ given.width < 0 =>
                <<"|">> \o Repeat(" ", 2 * given.padding) \o <<"x">>
                        \o Repeat(" ", 2 * given.padding) \o <<"|">> \in Content

\* frame("x", 1) is "+\n|\n+"
C6_Witness ==
    /\ Returned("frame")
    /\ given.text = <<"x">> /\ given.width = 1 /\ given.height = -1
    /\ given.padding = 0
    /\ given.topFrame /\ given.botFrame /\ given.leftFrame /\ given.rightFrame
    /\ returned.text = <<"+", NL, "|", NL, "+">>

(***************************************************************************)
(* C7: framing a one-line text (at least one character, no line break) that *)
(* fits in the interior, with all four frames, padding 0 and no height,     *)
(* returns three lines: "+", width-2 "-" and "+"; "|", the text padded with *)
(* blanks to width-2 characters and "|"; and the first line again.  Without *)
(* a width, width is len(text)+2.                                           *)
(***************************************************************************)
OneLineThatFits ==
    /\ given.fn = "frame"
    /\ given.text # <<>>
    /\ \A k \in DOMAIN given.text : given.text[k] # NL
    /\ given.width < 0 \/ Len(given.text) <= given.width - 2
    /\ given.height = -1 /\ given.padding = 0
    /\ given.topFrame /\ given.botFrame /\ given.leftFrame /\ given.rightFrame

C7_ThreeLines ==
    (OneLineThatFits /\ returned # Pending)
        => LET width == IF given.width < 0 THEN Len(given.text) + 2 ELSE given.width
               border == <<"+">> \o Repeat("-", width - 2) \o <<"+">>
           IN  /\ returned.err = "none"
               /\ returned.text =
                    border \o <<NL, "|">> \o given.text
                        \o Repeat(" ", width - 2 - Len(given.text))
                        \o <<"|", NL>> \o border

\* frame("hi", 6) is "+----+\n|hi  |\n+----+"
C7_Witness ==
    /\ OneLineThatFits
    /\ given.text = <<"h", "i">> /\ given.width = 6
    /\ returned.text = <<"+", "-", "-", "-", "-", "+", NL,
                         "|", "h", "i", " ", " ", "|", NL,
                         "+", "-", "-", "-", "-", "+">>

(***************************************************************************)
(* C8: subdividing a root panel with all four frames and padding 0 into 2   *)
(* horizontal daughters with the default arguments yields exactly two       *)
(* daughters, each as high as the panel's interior, whose widths sum to the *)
(* interior width and differ by at most 1, whatever the panel's size.       *)
(***************************************************************************)
SubdividedInTwo ==
    /\ last.op = "subdivide" /\ last.target = Root /\ err = "none"
    /\ last.args.subdivisions = 2 /\ last.args.names = <<>>
    /\ last.args.width < 0 /\ last.args.height < 0
    /\ panels[Root].horizontal
    /\ panels[Root].padding = 0
    /\ panels[Root].topFrame /\ panels[Root].botFrame
    /\ panels[Root].leftFrame /\ panels[Root].rightFrame

C8_TwoHorizontalDaughters ==
    SubdividedInTwo =>
        LET ds == panels[Root].daughters
        IN  /\ Len(ds) = 2
            /\ panels[ds[1]].height = panels[Root].height - 2
            /\ panels[ds[2]].height = panels[Root].height - 2
            /\ panels[ds[1]].width + panels[ds[2]].width = panels[Root].width - 2
            /\ Abs(panels[ds[1]].width - panels[ds[2]].width) <= 1

\* the 10x10 panel of the claim, and a panel of odd interior width
C8_Witness ==
    /\ SubdividedInTwo
    /\ \/ panels[Root].width = 10 /\ panels[Root].height = 10
       \/ panels[Root].width = 9

(***************************************************************************)
(* C9 as stated: after a percent p in [0,100] is given to one daughter      *)
(* of a container whose other daughters have none, that daughter's extent   *)
(* is interior*p/100 (in whole characters) and every other daughter has the *)
(* rest of the interior divided by their number, rounded to the nearest     *)
(* integer.                                                                 *)
(***************************************************************************)
PercentGiven ==
    /\ last.op = "set_percent" /\ err = "none"
    /\ last.args.percent \in 0..100
    /\ \A d \in Range(panels[panels[last.target].parent].daughters) \ {last.target} :
          panels[d].percent < 0

\* x is the quotient num/den rounded to a nearest integer (den > 0)
NearestTo(x, num, den) == 2 * Abs(x * den - num) <= den

C9_PercentAllocation ==
    PercentGiven =>
        LET self == last.target
            p == panels[self].parent
            I == InteriorExtent(panels, p)
            others == Range(panels[p].daughters) \ {self}
        IN  /\ StackExtent(panels, p, self) = (I * last.args.percent) \div 100
            /\ \A d \in others :
                  NearestTo(StackExtent(panels, p, d),
                            I * (100 - last.args.percent), 100 * Cardinality(others))

(***************************************************************************)
(* C9 amended: ... that daughter's extent is interior*p/100 rounded down,   *)
(* every other daughter but the last has the rest of the interior,          *)
(* interior*(100-p)/100, divided by their number and rounded to the nearest *)
(* integer, and the last of them has what is left, so that the extents sum  *)
(* to the interior.                                                         *)
(***************************************************************************)
C9_PercentAllocationLastCompletes ==
    PercentGiven =>
        LET self == last.target
            p == panels[self].parent
            I == InteriorExtent(panels, p)
            ds == panels[p].daughters
            others == Range(ds) \ {self}
            butLast == {d \in others : \E e \in others : e > d}
        IN  /\ StackExtent(panels, p, self) = (I * last.args.percent) \div 100
            /\ \A d \in butLast :
                  NearestTo(StackExtent(panels, p, d),
                            I * (100 - last.args.percent), 100 * Cardinality(others))
            /\ others # {} => StackSum(panels, p) = I

\* the example of the claim: interior height 20, three daughters, 50 percent
C9_Witness ==
    /\ PercentGiven
    /\ last.args.percent = 50
    /\ panels[Root].vertical /\ InteriorExtent(panels, Root) = 20
    /\ Len(panels[Root].daughters) = 3
    /\ LET ds == panels[Root].daughters
       IN  {panels[ds[i]].height : i \in 1..3} = {10, 5}

(***************************************************************************)
(* C10: subdivide on a panel that holds content, subdivide with a list of   *)
(* names whose length is not the number of subdivisions, and the assignment *)
(* of a text to a panel that is a container each raise PanelError and leave *)
(* every panel of the tree as it was.                                       *)
(***************************************************************************)
Rejected(c) ==
    \/ c.op = "subdivide" /\ panels[c.target].content # ""
    \/ c.op = "subdivide" /\ c.args.names # <<>>
          /\ Len(c.args.names) # c.args.subdivisions
    \/ /\ c.op = "setitem" /\ c.args.value.type = "str"
       /\ LET found == getitem(panels, c.target, c.args.key)
          IN  found # NoPanel /\ (panels[found].horizontal \/ panels[found].vertical)

C10_RejectedAtomic ==
    [][ (nops' = nops + 1 /\ Rejected(last'))
            => (err' = "PanelError" /\ panels' = panels) ]_vars

\* a text was refused to a container, and a subdivision to a panel with content
C10_Witness ==
    /\ err = "PanelError"
    /\ \/ last.op = "setitem" /\ last.args.value.type = "str"
             /\ panels[Root].daughters # <<>>
       \/ last.op = "subdivide" /\ panels[last.target].content # ""

(***************************************************************************)
(* What the claims on the whole tree speak of.                              *)
(***************************************************************************)
\* the extent of daughter d across the axis its parent p stacks on
CrossExtent(ps, p, d) == IF ps[p].horizontal THEN ps[d].height ELSE ps[d].width

\* the interior extent of the container p across its stacking axis
CrossInterior(ps, p) ==
    IF ps[p].horizontal
    THEN ps[p].height - B2I(ps[p].topFrame) - B2I(ps[p].botFrame) - 2 * ps[p].padding
    ELSE ps[p].width - B2I(ps[p].leftFrame) - B2I(ps[p].rightFrame) - 4 * ps[p].padding

\* the daughters of p fill its interior as it is now
Reflowed(ps, p) ==
    /\ \A d \in Range(ps[p].daughters) : CrossExtent(ps, p, d) = CrossInterior(ps, p)
    /\ StackSum(ps, p) = InteriorExtent(ps, p)

\* the containers of the tree that have a daughter without a percent (the
\* others do not fill their interior even when sealed, see C1)
Containers(ps) == {p \in DOMAIN ps : ps[p].daughters # <<>> /\ FreeOf(ps, p) # {}}

(***************************************************************************)
(* C11: after a subdivide, a toggle_direction or a set_percent on any panel *)
(* of the tree has succeeded, every container of the tree (with a daughter  *)
(* that has no percent) is reflowed: each daughter spans the container's    *)
(* interior across the stacking axis, and the daughters' extents along it   *)
(* sum to the container's interior extent.                                  *)
(***************************************************************************)
C11_FullTreeReflow ==
    (err = "none" /\ last.op \in {"subdivide", "toggle_direction", "set_percent"})
        => \A p \in Containers(panels) : Reflowed(panels, p)

\* the direction of the root of a nested layout was toggled: the root's own
\* daughters fill its interior
C11_Witness ==
    /\ err = "none" /\ last.op = "toggle_direction" /\ last.target = Root
    /\ \E d \in Range(panels[Root].daughters) : panels[d].daughters # <<>>
    /\ Reflowed(panels, Root)

(***************************************************************************)
(* C12: in every state reached by any calls of subdivide (with any number   *)
(* of subdivisions, 0 and 1 included), toggle_direction, set_percent,       *)
(* set_padding, set_frames and item assignment, whether they succeed or     *)
(* not, a panel has no direction (neither horizontal nor vertical) if and   *)
(* only if it has no daughters.                                             *)
(***************************************************************************)
C12_DirectionIffDaughters ==
    \A p \in DOMAIN panels :
        (~panels[p].horizontal /\ ~panels[p].vertical) <=> panels[p].daughters = <<>>

\* a container whose direction was toggled, next to a leaf without one
C12_Witness ==
    /\ err = "none" /\ last.op = "toggle_direction"
    /\ panels[last.target].daughters # <<>>
    /\ panels[last.target].horizontal # panels[last.target].vertical
    /\ \E d \in DOMAIN panels :
          panels[d].daughters = <<>> /\ ~panels[d].horizontal /\ ~panels[d].vertical

(***************************************************************************)
(* C13: from a root created with a width, a height and a padding that are   *)
(* not negative, every successful subdivide, set_percent, set_padding and   *)
(* toggle_direction leaves every panel of the tree with a width and a       *)
(* height that are not negative: no such call takes a tree whose extents    *)
(* are all non-negative to one with a negative extent (the root's are       *)
(* non-negative to begin with).                                             *)
(***************************************************************************)
NonNegative(ps) == \A p \in DOMAIN ps : ps[p].width >= 0 /\ ps[p].height >= 0

C13_ExtentsNonNegative ==
    [][ (/\ NonNegative(panels)
         /\ err' = "none"
         /\ last'.op \in {"subdivide", "set_percent", "set_padding", "toggle_direction"})
            => NonNegative(panels') ]_vars

\* the 10x10 root was subdivided and its daughters have room
C13_Witness ==
    /\ err = "none" /\ last.op = "subdivide"
    /\ panels[Root].width = 10 /\ panels[Root].daughters # <<>>
    /\ NonNegative(panels)

(***************************************************************************)
(* C14: when no daughter of a container has a percent, after seal() the     *)
(* daughters' extents along the stacking axis differ from one another by at *)
(* most 1, for every number of daughters and every interior extent (that is *)
(* not negative).                                                           *)
(***************************************************************************)
C14_EqualDistribution ==
    \A p \in DOMAIN panels :
        (SealedBy(p) /\ SetOf(panels, p) = {} /\ InteriorExtent(panels, p) >= 0)
            => \A d, e \in Range(panels[p].daughters) :
                  Abs(StackExtent(panels, p, d) - StackExtent(panels, p, e)) <= 1

\* an interior of 8 shared by three daughters: 3, 3 and 2
C14_Witness ==
    /\ SealedBy(Root) /\ SetOf(panels, Root) = {}
    /\ InteriorExtent(panels, Root) = 8
    /\ LET ds == panels[Root].daughters
       IN  /\ Len(ds) = 3
           /\ <<StackExtent(panels, Root, ds[1]), StackExtent(panels, Root, ds[2]),
                StackExtent(panels, Root, ds[3])>> = <<3, 3, 2>>

(***************************************************************************)
(* C15: set_percent (also when panel[name] = integer reaches it),           *)
(* set_padding and set_frames, called on any panel of the tree, the root    *)
(* and a root never subdivided included, either complete or raise           *)
(* PanelError, no other exception; and when they raise, no field of any     *)
(* panel has changed.                                                       *)
(***************************************************************************)
\* the call c is one of the three setters, or an item assignment that
\* reaches set_percent
Setter(c) ==
    \/ c.op \in {"set_percent", "set_padding", "set_frames"}
    \/ /\ c.op = "setitem" /\ c.args.value.type = "int"
       /\ getitem(panels, c.target, c.args.key) # NoPanel

C15_SettersAtomic ==
    [][ (nops' = nops + 1 /\ Setter(last'))
            => /\ err' \in {"none", "PanelError"}
               /\ err' # "none" => panels' = panels ]_vars

\* a setter has completed on a panel of a subdivided root
C15_Witness ==
    /\ err = "none"
    /\ last.op \in {"set_percent", "set_padding", "set_frames"}
    /\ panels[Root].daughters # <<>>

====
